---- MODULE Spec2Model ----
(***************************************************************************)
(* Conditional inference trees and forests (citrees.py).                   *)
(*                                                                         *)
(* Numbers.  alpha and p-values are hundredths (alpha = 5 is 0.05).        *)
(* Leaf values are class frequencies times ProbScale, impurities are Gini  *)
(* values times ImpScale; both scales are multiples of every row count, so *)
(* all the divisions of the code are exact on integers.  Columns and rows  *)
(* are numbered from 1 (the code numbers them from 0).                     *)
(***************************************************************************)
EXTENDS Integers, Sequences, FiniteSets, TLC

\* ------------------------------------------------------------------ bounds
NRows == 4
NCols == 2
NTrees == 2
MaxSeed == 2
MaxCalls == 2

\* ------------------------------------------------------- program constants
\* np.inf: the initial best_pval of the selectors and the unbounded max_depth
Inf == 1000000
\* sklearn's tree_.threshold[0] of a root that was not split
TREE_UNDEFINED == -2

\* --------------------------------------------------------------- utilities
RECURSIVE Gcd(_, _)
Gcd(a, b) == IF b = 0 THEN a ELSE Gcd(b, a % b)

RECURSIVE LcmUpTo(_)
LcmUpTo(n) == IF n <= 1 THEN 1 ELSE (LcmUpTo(n - 1) * n) \div Gcd(LcmUpTo(n - 1), n)

ProbScale == LcmUpTo(NRows)
ImpScale == ProbScale * ProbScale

Max(a, b) == IF a >= b THEN a ELSE b

RECURSIVE SumSeq(_)
SumSeq(s) == IF s = <<>> THEN 0 ELSE Head(s) + SumSeq(Tail(s))

RECURSIVE SortedSeq(_)
SortedSeq(S) ==
    IF S = {} THEN <<>>
    ELSE LET m == CHOOSE a \in S : \A b \in S : a <= b
         IN <<m>> \o SortedSeq(S \ {m})

Range(s) == {s[i] : i \in DOMAIN s}

\* seq[mask]: the elements of s, in order, whose index satisfies keep
RECURSIVE Filter(_, _)
Filter(s, keep) ==
    IF s = <<>> THEN <<>>
    ELSE (IF keep[1] THEN <<Head(s)>> ELSE <<>>)
         \o Filter(Tail(s), [i \in 1..(Len(s) - 1) |-> keep[i + 1]])

Count(s, v) == Cardinality({i \in DOMAIN s : s[i] = v})

\* np.unique(y)
np_unique(y) == SortedSeq(Range(y))

\* int(np.sqrt(p))
IntSqrt(p) == CHOOSE k \in 0..p : k * k <= p /\ (k + 1) * (k + 1) > p

\* The first integer above e^k, for every k whose e^k is a 32-bit integer
ExpCeil ==
    <<3, 8, 21, 55, 149, 404, 1097, 2981, 8104, 22027, 59875, 162755, 442414,
      1202605, 3269018, 8886111, 24154953, 65659970, 178482301, 485165196,
      1318815735>>

\* int(np.log(p+1)): the number of powers e^1, e^2, ... that are <= p + 1
IntLog1p(p) == Cardinality({k \in DOMAIN ExpCeil : p + 1 >= ExpCeil[k]})

\* ---------------------------------------------------------- argument values
\* max_feats is 'sqrt' | 'log' | 'all' | an integer; None-able arguments wrap
Tok(s) == [tok |-> s, val |-> 0]
IntV(k) == [tok |-> "int", val |-> k]
NoneV == [some |-> FALSE, val |-> 0]
Some(k) == [some |-> TRUE, val |-> k]

\* ------------------------------------------------------------------- state
VARIABLES
    X,                      \* the n x p feature matrix given to fit
    y,                      \* the n labels given to fit
    tree,                   \* tree[t]: the attributes of CITreeBase object t
    pc,                     \* pc[t]: where object t is in its life
    splitter_counter_,      \* tree attribute, per object
    feature_importances_,   \* tree attribute: [num, den], value num[c]/den
    labels_,                \* tree attribute, set by CITreeClassifier.fit
    root,                   \* root[t]: path |-> Node, the tree built so far
    stack,                  \* pending _build_tree calls of object t
    boot,                   \* boot[t]: the bootstrap draw of the task of tree t
    first_fit,              \* first_fit[t]: what the first fit of object t returned
    np_random,              \* numpy's global generator: last seed, calls since
    np_draws,               \* what the generator returned to the calls made so far
    pvalues,                \* the p-values the permutation tests can return
    pvals,                  \* the permutation tests evaluated so far
    made,                   \* the outcome of a constructor call
    forest,                 \* the attributes of the CIForestClassifier object
    fpc,                    \* where the forest object is in its life
    forest_fit,             \* the forest attributes set by fit
    Xtest,                  \* the matrix given to predict_proba
    all_proba,              \* predict_proba's shared accumulator
    lock,                   \* threading.Lock: 0 when free, else the holder
    ptask,                  \* the _accumulate_prediction task of each tree
    result                  \* what predict_proba returned

treeVars == <<tree, pc, splitter_counter_, feature_importances_, labels_,
              root, stack, boot, first_fit, np_random, np_draws, pvalues, pvals>>
forestVars == <<forest, fpc, forest_fit>>
predictVars == <<Xtest, all_proba, lock, ptask, result>>
vars == <<X, y, treeVars, made, forestVars, predictVars>>

Trees == 1..NTrees
\* X.shape[1] and the columns of X
P == Len(X[1])
Cols == 1..P

\* --------------------------------------------------------- CITreeBase.__init__
\* An error checking that lets alpha = 0 through
TreeArgsValid_alpha(a) ==
    /\ ~(a.alpha < 0 \/ a.alpha > 100)
    /\ ~(a.n_permutations < 0)
    /\ a.selector \in {"distance", "pearson", "hybrid"}
    /\ a.max_feats \in {Tok("sqrt"), Tok("log"), Tok("all"), IntV(-1)}

\* The error checking: no ValueError is raised
TreeArgsValid(a) ==
    /\ ~(a.alpha <= 0 \/ a.alpha > 100)
    /\ ~(a.n_permutations < 0)
    /\ a.selector \in {"distance", "pearson", "hybrid"}
    /\ a.max_feats \in {Tok("sqrt"), Tok("log"), Tok("all"), IntV(-1)}

\* The attributes set by a successful construction; seed is the value drawn
\* by np.random.randint(1, 9999) when random_state is None.
CITreeBase_init(a, seed) ==
    [alpha             |-> a.alpha,
     min_samples_split |-> Max(1, a.min_samples_split),
     n_permutations    |-> a.n_permutations,
     selector          |-> a.selector,
     max_feats         |-> a.max_feats,
     early_stopping    |-> a.early_stopping,
     max_depth         |-> IF a.max_depth = -1 THEN Inf ELSE Max(1, a.max_depth),
     random_state      |-> IF a.random_state.some THEN a.random_state.val ELSE seed]

\* ------------------------------------------------------- CIForestBase.__init__
\* The error checking: no ValueError is raised.  class_weight None is "None".
ForestArgsValid(a) ==
    /\ ~(a.alpha <= 0 \/ a.alpha > 100)
    /\ ~(a.n_permutations < 0)
    /\ a.selector \in {"distance", "pearson", "hybrid"}
    /\ a.max_feats \in {Tok("sqrt"), Tok("log"), Tok("all"), IntV(-1)}
    /\ ~(a.n_estimators < 0)
    /\ a.class_weight \in {"None", "balanced", "stratify"}

\* The attributes set by a successful construction; params is what fit
\* passes to each tree's constructor (it has no max_depth)
CIForestBase_init(a, seed) ==
    [alpha             |-> a.alpha,
     min_samples_split |-> Max(1, a.min_samples_split),
     n_permutations    |-> a.n_permutations,
     max_depth         |-> IF a.max_depth = -1 THEN a.max_depth ELSE Max(1, a.max_depth),
     n_estimators      |-> Max(1, a.n_estimators),
     selector          |-> a.selector,
     max_feats         |-> a.max_feats,
     bootstrap         |-> a.bootstrap,
     early_stopping    |-> a.early_stopping,
     class_weight      |-> a.class_weight,
     bayes             |-> a.bayes,
     random_state      |-> IF a.random_state.some THEN a.random_state.val ELSE seed,
     params            |-> [alpha             |-> a.alpha,
                            min_samples_split |-> Max(1, a.min_samples_split),
                            n_permutations    |-> a.n_permutations,
                            selector          |-> a.selector,
                            max_feats         |-> a.max_feats,
                            early_stopping    |-> a.early_stopping,
                            random_state      |-> NoneV]]

\* ------------------------------------------------------------ numpy's random
\* numpy's global generator is a function of the seed it was last given and
\* of the calls made on it since: np_random is that seed and those calls, and
\* np_draws the value the generator returned to each call made so far.  A
\* call made again in the same state returns the same value; a call not made
\* before returns any of the values it can return.

\* A call on the generator: p holds the weights given to np.random.choice
Call(op, n, size, p) == [op |-> op, n |-> n, size |-> size, p |-> p]

\* The generator of a process that has not seeded it; -1 is no seed that
\* np.random.seed is given
np_random_initial == [seed |-> -1, drawn |-> <<>>]

\* A seeding that leaves the generator where it is
np_random_seed_keep(s) == np_random

\* np.random.seed(s)
np_random_seed(s) == [seed |-> s, drawn |-> <<>>]

\* The generator after a call
np_random_advance(g, call) == [g EXCEPT !.drawn = Append(@, call)]

\* What a call can return: size distinct positions of 1..n in any order for
\* "choice" (replace=False), any size positions of 1..n for "choice_replace",
\* an integer of n..size-1 for "randint"
Values(call) ==
    IF call.op = "choice"
    THEN {ix \in [1..call.size -> 1..call.n] :
             \A i, j \in 1..call.size : i # j => ix[i] # ix[j]}
    ELSE IF call.op = "choice_replace" THEN [1..call.size -> 1..call.n]
    ELSE {<<v>> : v \in call.n..(call.size - 1)}

\* What the call returns in generator state g
np_random_returns(g, call) ==
    LET made_before == {e \in np_draws : e.g = g /\ e.call = call}
    IN IF made_before # {} THEN {e.value : e \in made_before} ELSE Values(call)

\* np_draws after the call has returned value
Noted(g, call, value) == np_draws \cup {[g |-> g, call |-> call, value |-> value]}

\* np.random.choice(np.arange(p), size=size, replace=False)
np_random_choice(p, size) == Call("choice", p, size, <<>>)

\* np.random.choice(items, size=size, replace=True, p=p): the call, and the
\* array returned when the generator gives the positions ix (with
\* replacement, so a row may come several times and another not at all)
np_random_choice_replace(items, size, p) == Call("choice_replace", Len(items), size, p)

\* np.random.randint(low, high)
np_random_randint(low, high) == Call("randint", low, high, <<>>)

\* DecisionTreeClassifier.fit with random_state=None takes the seed of its
\* splitter from numpy's global generator
sklearn_fit_draw == Call("sklearn", 0, 0, <<>>)

\* ------------------------------------------------------- permutation tests
\* permutation_test_pcor / permutation_test_dcor / permutation_test_dcor_parallel
\* are functions of their arguments (x, y and the seed; B is the same in
\* every call of a run): a run draws the value of each test the first time it
\* is made, among pvalues, and keeps it in pvals.
PVals == {1, 5}

\* x = X[:, col] and y of the node, and the tree's random_state
PvalKey(t, rows, col) ==
    <<[i \in DOMAIN rows |-> X[rows[i]][col]],
      [i \in DOMAIN rows |-> y[rows[i]]],
      tree[t].random_state>>

Known(key) == \E e \in pvals : e[1] = key
Lookup(key) == (CHOOSE e \in pvals : e[1] = key)[2]

\* pv is a possible outcome of the permutation tests on the node's columns:
\* a test already evaluated on the same arguments returns the same value
Consistent(t, rows, pv) ==
    \A c \in Cols :
        /\ Known(PvalKey(t, rows, c)) => pv[c] = Lookup(PvalKey(t, rows, c))
        /\ \A d \in Cols : PvalKey(t, rows, c) = PvalKey(t, rows, d) => pv[c] = pv[d]

\* ----------------------------------------------------------------- selector
\* A comparison that lets a later column with the same p-value win
Better_le(pval, best_pval) == pval <= best_pval

\* if pval < best_pval
Better(pval, best_pval) == pval < best_pval

\* A selector that never stops early
EarlyStop_never(best_pval, h) == FALSE

\* if self.early_stopping and best_pval < self.alpha
EarlyStop(best_pval, h) == h.early_stopping /\ best_pval < h.alpha

\* The loop of _selector_pcor / _selector_dcor / _selector_cor_hybrid from
\* position i of col_idx on; seen is the list of columns tested so far.
RECURSIVE SelectorLoop(_, _, _, _, _, _, _)
SelectorLoop(col_idx, i, best_col, best_pval, seen, pv, h) ==
    IF i > Len(col_idx)
    THEN [col |-> best_col, pval |-> best_pval, seen |-> seen]
    ELSE LET col == col_idx[i]
             pval == pv[col]
         IN IF Better(pval, best_pval)
            THEN IF EarlyStop(pval, h)
                 THEN [col |-> col, pval |-> pval, seen |-> seen \o <<col>>]
                 ELSE SelectorLoop(col_idx, i + 1, col, pval, seen \o <<col>>, pv, h)
            ELSE SelectorLoop(col_idx, i + 1, best_col, best_pval, seen \o <<col>>, pv, h)

\* best_col None is 0
_selector(col_idx, pv, h) == SelectorLoop(col_idx, 1, 0, Inf, <<>>, pv, h)

\* ----------------------------------------------------------------- splitter
\* gini_index(y, labels) times ImpScale
gini_index(ys, labels) ==
    LET n == Len(ys)
        p(l) == IF n = 0 THEN 0 ELSE (Count(ys, l) * ProbScale) \div n
    IN ImpScale - SumSeq([k \in DOMAIN labels |-> p(labels[k]) * p(labels[k])])

\* DecisionTreeClassifier(max_depth=1, min_samples_split=min_samples_split)
\* .fit(x, y).tree_.threshold[0].  scikit-learn's fit raises ValueError for an
\* integer min_samples_split below 2; otherwise the threshold is the first
\* midpoint of two consecutive distinct values of x that maximises
\* sum_left c^2/n_left + sum_right c^2/n_right, TREE_UNDEFINED when the node
\* is pure, x is constant or the node has less than min_samples_split rows
\* The singleton sets bind each value once: the partitions here, the sorted
\* values and the threshold below are not evaluated again at each use.
SplitScore(xs, ys, thr) ==
    LET sq(s, cls) == SumSeq([k \in DOMAIN cls |-> Count(s, cls[k]) * Count(s, cls[k])])
        score(L, R, cls) ==
            sq(L, cls) * (ProbScale \div Len(L)) + sq(R, cls) * (ProbScale \div Len(R))
    IN CHOOSE v \in {score(L, R, cls) :
                        L \in {Filter(ys, [i \in DOMAIN xs |-> xs[i] <= thr])},
                        R \in {Filter(ys, [i \in DOMAIN xs |-> xs[i] > thr])},
                        cls \in {np_unique(ys)}} : TRUE

BestThreshold(xs, ys, min_samples_split) ==
    LET Stump(vals) ==
            LET cand == {<<(vals[i] + vals[i + 1]) \div 2,
                           SplitScore(xs, ys, (vals[i] + vals[i + 1]) \div 2)>> :
                            i \in 1..(Len(vals) - 1)}
            IN IF Len(np_unique(ys)) <= 1 \/ Len(vals) <= 1 \/ Len(xs) < min_samples_split
               THEN TREE_UNDEFINED
               ELSE (CHOOSE best \in cand :
                        \A other \in cand :
                            /\ other[2] <= best[2]
                            /\ other[1] < best[1] => other[2] < best[2])[1]
    IN IF min_samples_split < 2 THEN [error |-> "ValueError", threshold |-> 0]
       ELSE CHOOSE r \in {[error |-> "none", threshold |-> Stump(vals)] :
                             vals \in {SortedSeq(Range(xs))}} : TRUE

\* CITreeClassifier._splitter after the stump has given its threshold,
\* without its update of feature_importances_
SplitAt(rows, col, labels, threshold) ==
    LET n == Len(rows)
        xs == [i \in DOMAIN rows |-> X[rows[i]][col]]
        ys == [i \in DOMAIN rows |-> y[rows[i]]]
        impurity(left, right) ==
            LET y_left == [i \in DOMAIN left |-> y[left[i]]]
                y_right == [i \in DOMAIN right |-> y[right[i]]]
                node_impurity == gini_index(ys, labels)
                left_impurity == (gini_index(y_left, labels) * Len(left)) \div n
                right_impurity == (gini_index(y_right, labels) * Len(right)) \div n
            IN node_impurity - (left_impurity + right_impurity)
    IN CHOOSE sp \in {[error |-> "none", impurity |-> impurity(left, right),
                       threshold |-> threshold, left |-> left, right |-> right] :
                        left \in {Filter(rows, [i \in DOMAIN rows |-> xs[i] <= threshold])},
                        right \in {Filter(rows, [i \in DOMAIN rows |-> xs[i] > threshold])}} : TRUE

\* What _splitter is when it is not called, and when the stump's fit raises
NoSplit(error) ==
    [error |-> error, impurity |-> 0, threshold |-> 0, left |-> <<>>, right |-> <<>>]

\* CITreeClassifier._splitter: the threshold of the stump, computed once,
\* and the split made at it; the error of the stump's fit when it raises
_splitter(rows, col, labels, min_samples_split) ==
    LET xs == [i \in DOMAIN rows |-> X[rows[i]][col]]
        ys == [i \in DOMAIN rows |-> y[rows[i]]]
    IN CHOOSE sp \in {IF stump.error # "none" THEN NoSplit(stump.error)
                      ELSE SplitAt(rows, col, labels, stump.threshold) :
                        stump \in {BestThreshold(xs, ys, min_samples_split)}} : TRUE

\* An estimate over the labels of the node instead of the tree's labels_
_estimate_proba_node(ys, labels) ==
    [k \in DOMAIN np_unique(ys) |-> (Count(ys, np_unique(ys)[k]) * ProbScale) \div Len(ys)]

\* CITreeClassifier._estimate_proba(y) times ProbScale
_estimate_proba(ys, labels) ==
    [k \in DOMAIN labels |-> (Count(ys, labels[k]) * ProbScale) \div Len(ys)]

\* ------------------------------------------------------------- _build_tree
\* A stopping test that lets a node at max_depth split
MaySplit_le(n, depth, h) == n > h.min_samples_split /\ depth <= h.max_depth

\* The stopping test: a node of n rows at this depth may split
MaySplit(n, depth, h) == n > h.min_samples_split /\ depth < h.max_depth

\* A test that lets a p-value equal to alpha through
Significant_le(col_pval, h) == col_pval <= h.alpha

\* The test of the selector's result
Significant(col_pval, h) == col_pval < h.alpha

\* A test that forgets the left partition
Accepted_right(left, right) == Len(right) > 0

\* The test of the splitter's result (left and right are non-empty tuples)
Accepted(left, right) == Len(left) > 0 /\ Len(right) > 0

\* -------------------------------------------------------------------- nodes
\* Node.  A Leaf is a Node with a value, an Internal node one without.  The
\* field seen is not in the code: it records what the _build_tree call that
\* made the node saw (its rows; the columns the selector tested with their
\* p-values and the selector's result, if it ran; the sizes of
\* the splitter's partitions, if it ran), for the properties below;
\* counter and col_idx are the split counter and the column draw of the call,
\* from the state of numpy's generator when the draw was made.
NotRun == -1
NoDraw == [seed |-> NotRun, drawn |-> <<>>]
Seen(rows, counter, col_idx, from, tested, sel_col, sel_pval, n_left, n_right) ==
    [n |-> Len(rows), rows |-> rows, counter |-> counter, col_idx |-> col_idx,
     from |-> from, tested |-> tested, sel_col |-> sel_col, sel_pval |-> sel_pval,
     n_left |-> n_left, n_right |-> n_right]

\* A pending _build_tree call: its place in the tree and its rows, then the
\* columns it drew and the state of the generator it drew them from
Frame(path, rows) == [path |-> path, rows |-> rows, col_idx |-> <<>>, from |-> NoDraw]
Leaf(value, seen) ==
    [kind |-> "Leaf", col |-> 0, col_pval |-> 0, threshold |-> 0, impurity |-> 0,
     value |-> value, seen |-> seen]
Internal(col, col_pval, threshold, impurity, seen) ==
    [kind |-> "Internal", col |-> col, col_pval |-> col_pval,
     threshold |-> threshold, impurity |-> impurity, value |-> <<>>, seen |-> seen]

\* f with key k bound to v
Put(f, k, v) == [p \in DOMAIN f \cup {k} |-> IF p = k THEN v ELSE f[p]]

\* ---------------------------------------------------------------- data sets
\* Column patterns over the rows: all values distinct; two alternating
\* values; two rows below TREE_UNDEFINED and the rest above it
ColInc == [i \in 1..NRows |-> 2 * i]
ColAlt == [i \in 1..NRows |-> 2 * (i % 2)]
ColPatterns == <<ColInc, ColAlt, [i \in 1..NRows |-> IF i <= 2 THEN -4 ELSE 0]>>

\* One matrix per rotation of the patterns over the columns
XSet == {[i \in 1..NRows |-> [c \in 1..NCols |-> ColPatterns[((c + k) % 3) + 1][i]]] : k \in 0..2}
        \cup {[i \in 1..NRows |-> <<ColInc[i]>>]}

\* Label vectors: two blocks, alternating, a single odd row, one class only
YSet == {[i \in 1..NRows |-> IF 2 * i <= NRows THEN 0 ELSE 1],
         [i \in 1..NRows |-> i % 2],
         [i \in 1..NRows |-> IF i = 1 THEN 1 ELSE 0],
         [i \in 1..NRows |-> 1]}

\* -------------------------------------------------------- bootstrap samplers
\* The bootstrap draw of a task: idx is what the sampler has built so far
\* (kind "list": one array per class; kind "array": one flat array), k the
\* number of draws made, p the weights bayes_boot_probs gave for the next
\* draw (none: <<>>), rows the rows the tree was then fitted on.  The field
\* from is not in the code: for each draw made, the state of numpy's
\* generator it was made from, the weights it was given and the call.
\* A call of stratify_unsampled_idx / balanced_unsampled_idx /
\* normal_unsampled_idx has via "unsampled_idx", kind "entry" between its
\* own np.random.seed and its call of the sampler, and unsampled is what it
\* returned.
NoBoot == [kind |-> "none", idx |-> <<>>, k |-> 0, p |-> <<>>, rows |-> <<>>, from |-> <<>>,
           via |-> "sampled_idx", unsampled |-> <<>>]

\* np.where(y == label)[0]
np_where(yy, label) == Filter([i \in DOMAIN yy |-> i], [i \in DOMAIN yy |-> yy[i] = label])

\* np.arange(n)
np_arange(n) == [i \in 1..n |-> i]

\* np.min of a non-empty array
RECURSIVE np_min(_)
np_min(s) == IF Len(s) = 1 THEN s[1] ELSE LET m == np_min(Tail(s)) IN IF s[1] <= m THEN s[1] ELSE m

\* bayes_boot_probs(n): the weights are drawn from numpy's generator (n - 1
\* uniform order statistics), so they are a function of n and of the state g
\* the generator is in, and are written <<[g, n]>>; the generator afterwards
bayes_boot_probs(g, n) ==
    [p |-> <<[g |-> g, n |-> n]>>,
     g |-> np_random_advance(g, Call("bayes_boot_probs", n, 0, <<>>))]

\* A balanced sampler that draws as many rows per class as y has rows
BalancedSize_all(min_class_p, n) == n

\* int(np.floor(min_class_p*len(y))); min_class_p is scaled by ProbScale
BalancedSize(min_class_p, n) == (min_class_p * n) \div ProbScale

\* The size of the draw for a class under a policy
GroupSize(policy, yy, label, min_class_p) ==
    IF policy = "balanced" THEN BalancedSize(min_class_p, Len(yy))
    ELSE Len(np_where(yy, label))

\* tmp and size of draw k of a sampler
SamplerTmp(kind, yy, k) ==
    IF kind = "array" THEN np_arange(Len(yy)) ELSE np_where(yy, np_unique(yy)[k])

SamplerSize(kind, policy, yy, k, min_class_p) ==
    IF kind = "array" THEN Len(yy)
    ELSE GroupSize(policy, yy, np_unique(yy)[k], min_class_p)

\* The sampler has returned: it has made all its draws, one per class for
\* stratify_sampled_idx and balanced_sampled_idx, one in all for
\* normal_sampled_idx
SamplerDone(b, yy) ==
    /\ b.kind \in {"list", "array"}
    /\ b.k = IF b.kind = "array" THEN 1 ELSE Len(np_unique(yy))

\* stratify_sampled_idx / balanced_sampled_idx / normal_sampled_idx called by
\* task t, entry: np.random.seed(random_state)
sampled_idx_seed(t, random_state, policy) ==
    /\ np_random' = np_random_seed(random_state)
    /\ boot' = [boot EXCEPT ![t] =
                  [NoBoot EXCEPT !.kind = IF policy = "None" THEN "array" ELSE "list",
                                 !.via = boot[t].via]]
    /\ UNCHANGED np_draws

\* The sampler of task t, p = bayes_boot_probs(n=len(tmp)) of its next draw
sampled_idx_weights(t, yy) ==
    LET b == boot[t]
        w == bayes_boot_probs(np_random, Len(SamplerTmp(b.kind, yy, b.k + 1)))
    IN /\ b.p = <<>>
       /\ boot' = [boot EXCEPT ![t].p = w.p]
       /\ np_random' = w.g
       /\ UNCHANGED np_draws

\* The call np.random.choice(tmp, size=size, replace=True, p=p) of the next
\* draw of the sampler of a task
sampled_idx_call(b, yy, policy, min_class_p) ==
    np_random_choice_replace(SamplerTmp(b.kind, yy, b.k + 1),
                             SamplerSize(b.kind, policy, yy, b.k + 1, min_class_p),
                             b.p)

\* The draw of a task after that call, made in generator state g, has
\* returned the rows at the positions ix of tmp
sampled_idx_choice(b, yy, call, ix, g) ==
    LET tmp == SamplerTmp(b.kind, yy, b.k + 1)
        draw == [j \in DOMAIN ix |-> tmp[ix[j]]]
    IN [b EXCEPT !.idx = IF b.kind = "array" THEN draw ELSE Append(@, draw),
                 !.k = @ + 1,
                 !.p = <<>>,
                 !.from = Append(@, [g |-> g, p |-> b.p, call |-> call])]

\* np.setdiff1d(a, b) of an ascending a without repeats: the values of a
\* that are not in b, ascending
np_setdiff1d(a, b) == Filter(a, [i \in DOMAIN a |-> \A j \in DOMAIN b : b[j] # a[i]])

\* What a *_unsampled_idx returns after its sampler returned b.idx.
\* normal_unsampled_idx: np.arange(n)[counts==0], counts the
\* np.bincount(sampled, minlength=n).  stratify_unsampled_idx and
\* balanced_unsampled_idx: for each label of np.unique(y) the rows of the
\* label that are not in the draw of its class.
unsampled_idx(b, yy) ==
    IF b.kind = "array"
    THEN LET counts == [i \in DOMAIN yy |-> Count(b.idx, i)]
         IN Filter(np_arange(Len(yy)), [i \in DOMAIN yy |-> counts[i] = 0])
    ELSE [i \in DOMAIN np_unique(yy) |->
            np_setdiff1d(np_where(yy, np_unique(yy)[i]), b.idx[i])]

\* np.concatenate of a list of arrays
RECURSIVE np_concatenate(_)
np_concatenate(idx) == IF idx = <<>> THEN <<>> ELSE Head(idx) \o np_concatenate(Tail(idx))

\* The labels _parallel_fit_classifier gives a tree fitted on a bootstrap
\* draw: np.unique(y) of the whole y
FitLabels(yy, rows) == np_unique(yy)

\* ------------------------------------------------------------ CITree*.fit
\* Not in the code: the tree, the importances and the resolved max_feats a
\* first fit left in the object, kept when fit is called on it again
NoFirstFit == [taken |-> FALSE, root |-> <<>>, feature_importances_ |-> <<>>, max_feats |-> IntV(0)]

AllRows == [i \in DOMAIN X |-> i]

ResolveMaxFeats(mf, p) ==
    IF mf = Tok("sqrt") THEN IntV(IntSqrt(p))
    ELSE IF mf = Tok("log") THEN IntV(IntLog1p(p))
    ELSE IF mf \in {Tok("all"), IntV(-1)} THEN IntV(p)
    ELSE IntV(mf.val)

\* CITreeClassifier.fit(X[rows], y[rows], labels) up to the call of
\* _build_tree on the root: CITreeBase.fit's resolution of max_feats and its
\* fresh feature_importances_
Fit(t, rows, labels) ==
    /\ labels_' = [labels_ EXCEPT ![t] = labels]
    /\ tree' = [tree EXCEPT ![t].max_feats = ResolveMaxFeats(@, P)]
    /\ feature_importances_' =
           [feature_importances_ EXCEPT ![t] = [num |-> [c \in Cols |-> 0], den |-> ImpScale]]
    /\ root' = [root EXCEPT ![t] = <<>>]
    /\ stack' = [stack EXCEPT ![t] = <<Frame(<<>>, rows)>>]
    /\ pc' = [pc EXCEPT ![t] = "build"]

\* _build_tree, entry: the stopping test, and for a node that may split the
\* increment of the split counter and the seeding of numpy's generator
BuildCheck(t) ==
    /\ pc[t] = "build"
    /\ stack[t] # <<>>
    /\ LET fr == Head(stack[t])
           n == Len(fr.rows)
           depth == Len(fr.path)
       IN IF MaySplit(n, depth, tree[t])
          THEN /\ splitter_counter_' = [splitter_counter_ EXCEPT ![t] = @ + 1]
               /\ np_random' = np_random_seed(tree[t].random_state * (splitter_counter_[t] + 1))
               /\ pc' = [pc EXCEPT ![t] = "draw"]
               /\ UNCHANGED <<root, stack>>
          ELSE /\ root' = [root EXCEPT ![t] =
                       Put(@, fr.path,
                           Leaf(_estimate_proba([i \in DOMAIN fr.rows |-> y[fr.rows[i]]],
                                                labels_[t]),
                                Seen(fr.rows, NotRun, <<>>, NoDraw, <<>>,
                                     NotRun, NotRun, NotRun, NotRun)))]
               /\ stack' = [stack EXCEPT ![t] = Tail(@)]
               /\ UNCHANGED <<splitter_counter_, np_random, pc>>
    /\ UNCHANGED <<X, y, boot, first_fit, np_draws, pvalues, tree, feature_importances_,
                   labels_, pvals>>
    /\ UNCHANGED <<made, forestVars, predictVars>>

\* _build_tree, the column draw of a node that passed the stopping test:
\* np.random.choice on numpy's generator as it is now
BuildDraw(t) ==
    /\ pc[t] = "draw"
    /\ LET fr == Head(stack[t])
           call == np_random_choice(P, tree[t].max_feats.val)
       IN \E col_idx \in np_random_returns(np_random, call) :
            /\ stack' = [stack EXCEPT ![t] =
                            <<[fr EXCEPT !.col_idx = col_idx, !.from = np_random]>> \o Tail(@)]
            /\ np_draws' = Noted(np_random, call, col_idx)
            /\ np_random' = np_random_advance(np_random, call)
    /\ pc' = [pc EXCEPT ![t] = "split"]
    /\ UNCHANGED <<X, y, boot, first_fit, pvalues, tree, splitter_counter_,
                   feature_importances_, labels_, root, pvals>>
    /\ UNCHANGED <<made, forestVars, predictVars>>

\* _build_tree, the rest of the node: the selector on the columns drawn, the
\* splitter (its stump takes a number from numpy's generator) and the choice
\* between Internal and Leaf.  When the stump's fit raises, fit raises: root
\* stays what it was before fit was called.
BuildSplit(t) ==
    /\ pc[t] = "split"
    /\ LET fr == Head(stack[t])
           h == tree[t]
           n == Len(fr.rows)
           ys == [i \in DOMAIN fr.rows |-> y[fr.rows[i]]]
           col_idx == fr.col_idx
       IN \E pv \in [Cols -> pvalues] :
            /\ Consistent(t, fr.rows, pv)
            /\ \E sel \in {_selector(col_idx, pv, h)} :
               \E sp \in {IF Significant(sel.pval, h)
                          THEN _splitter(fr.rows, sel.col, labels_[t], h.min_samples_split)
                          ELSE NoSplit("none")} :
               LET significant == Significant(sel.pval, h)
                   accepted == significant /\ Accepted(sp.left, sp.right)
                   seen == Seen(fr.rows, splitter_counter_[t], col_idx, fr.from,
                                [i \in DOMAIN sel.seen |-> <<sel.seen[i], pv[sel.seen[i]]>>],
                                sel.col, sel.pval,
                                IF significant THEN Len(sp.left) ELSE NotRun,
                                IF significant THEN Len(sp.right) ELSE NotRun)
               IN /\ pvals' = pvals \cup
                        {<<PvalKey(t, fr.rows, c), pv[c]>> : c \in Range(sel.seen)}
                  /\ IF sp.error # "none"
                     THEN /\ pc' = [pc EXCEPT ![t] = sp.error]
                          /\ root' = [root EXCEPT ![t] =
                                IF first_fit[t].taken THEN first_fit[t].root ELSE <<>>]
                          /\ stack' = [stack EXCEPT ![t] = <<>>]
                          /\ UNCHANGED <<feature_importances_, np_random>>
                     ELSE /\ pc' = [pc EXCEPT ![t] = "build"]
                          /\ np_random' =
                                IF significant
                                THEN np_random_advance(np_random, sklearn_fit_draw)
                                ELSE np_random
                          /\ feature_importances_' =
                                IF significant
                                THEN [feature_importances_ EXCEPT ![t].num[sel.col] = @ + sp.impurity]
                                ELSE feature_importances_
                          /\ root' = [root EXCEPT ![t] =
                                Put(@, fr.path,
                                    IF accepted
                                    THEN Internal(sel.col, sel.pval, sp.threshold, sp.impurity, seen)
                                    ELSE Leaf(_estimate_proba(ys, labels_[t]), seen))]
                          /\ stack' = [stack EXCEPT ![t] =
                                IF accepted
                                THEN <<Frame(fr.path \o <<0>>, sp.left),
                                       Frame(fr.path \o <<1>>, sp.right)>> \o Tail(@)
                                ELSE Tail(@)]
    /\ UNCHANGED <<X, y, boot, first_fit, np_draws, pvalues, tree, splitter_counter_, labels_>>
    /\ UNCHANGED <<made, forestVars, predictVars>>

\* A fit that forgets to normalise
Normalised_skip(fi) == fi

\* sum_fi = np.sum(fi); if sum_fi > 0: fi /= sum_fi.  The entries num[c]/den
\* sum to sum(num)/den, so dividing them by that sum gives num[c]/sum(num).
Normalised(fi) ==
    LET sum_fi == SumSeq(fi.num)
    IN IF sum_fi > 0 THEN [fi EXCEPT !.den = sum_fi] ELSE fi

\* CITreeBase.fit after _build_tree has returned: the normalisation
FitReturn(t) ==
    /\ pc[t] = "build"
    /\ stack[t] = <<>>
    /\ feature_importances_' = [feature_importances_ EXCEPT ![t] = Normalised(@)]
    /\ pc' = [pc EXCEPT ![t] = "fitted"]
    /\ UNCHANGED <<X, y, boot, first_fit, pvalues, tree, splitter_counter_, labels_, root,
                   stack, np_random, np_draws, pvals>>
    /\ UNCHANGED <<made, forestVars, predictVars>>

\* ------------------------------------------------- specification: two trees
\* Two CITreeClassifier objects constructed with the same arguments and fit
\* one after the other on the same data.
TreeArgSet ==
    [alpha : {5, 100}, min_samples_split : {1, 2}, max_depth : {-1, 0, 2},
     max_feats : {Tok("log"), Tok("all")}, n_permutations : {100},
     selector : {"pearson"}, early_stopping : BOOLEAN,
     random_state : {Some(s) : s \in 0..MaxSeed}]

TreeFit(t) ==
    /\ pc[t] = "new"
    /\ \A u \in 1..(t - 1) : pc[u] \in {"fitted", "ValueError"}
    /\ Fit(t, AllRows, np_unique(y))
    /\ UNCHANGED <<X, y, boot, first_fit, splitter_counter_, np_random, np_draws, pvalues, pvals>>
    /\ UNCHANGED <<made, forestVars, predictVars>>

\* No constructor called, no forest, no prediction under way
NoObject == [cls |-> "none"]
NoForestFit == [labels_ |-> <<>>, n_classes_ |-> 0, class_dist_p |-> <<>>,
                feature_importances_ |-> [num |-> <<>>, den |-> 1]]
IdleTask == [pc |-> "idle", prediction |-> <<>>, i |-> 0, tmp |-> <<>>]
NoPredict ==
    /\ Xtest = <<>>
    /\ all_proba = <<>>
    /\ lock = 0
    /\ ptask = [t \in Trees |-> IdleTask]
    /\ result = [outcome |-> "none", calls |-> 0, first |-> <<>>]
NoForest ==
    /\ forest = NoObject
    /\ fpc = "none"
    /\ forest_fit = NoForestFit

TreeInit ==
    /\ made = NoObject
    /\ NoForest
    /\ NoPredict
    /\ X \in XSet
    /\ y \in YSet
    /\ \E a \in TreeArgSet : tree = [t \in Trees |-> CITreeBase_init(a, 0)]
    /\ pc = [t \in Trees |-> "new"]
    /\ splitter_counter_ = [t \in Trees |-> 0]
    /\ feature_importances_ = [t \in Trees |-> [num |-> <<>>, den |-> ImpScale]]
    /\ labels_ = [t \in Trees |-> <<>>]
    /\ root = [t \in Trees |-> <<>>]
    /\ stack = [t \in Trees |-> <<>>]
    /\ boot = [t \in Trees |-> NoBoot]
    /\ first_fit = [t \in Trees |-> NoFirstFit]
    /\ np_random = np_random_initial
    /\ np_draws = {}
    /\ pvalues = PVals
    /\ pvals = {}

TreeNext ==
    \E t \in Trees :
        TreeFit(t) \/ BuildCheck(t) \/ BuildDraw(t) \/ BuildSplit(t) \/ FitReturn(t)

SpecTree == TreeInit /\ [][TreeNext]_vars

\* --------------------------------------------------------------- prediction
\* CITreeBase.predict_label(X, tree): the value of the leaf the sample reaches
RECURSIVE predict_label(_, _, _)
predict_label(t, sample, path) ==
    LET nd == root[t][path]
    IN IF nd.kind = "Leaf" THEN nd.value
       ELSE IF sample[nd.col] <= nd.threshold
            THEN predict_label(t, sample, path \o <<0>>)
            ELSE predict_label(t, sample, path \o <<1>>)

\* CITreeClassifier.predict_proba(X)
predict_proba(t, Xs) == [i \in DOMAIN Xs |-> predict_label(t, Xs[i], <<>>)]

\* np.argmax of a vector: the first position of its maximum, counted from 0
np_argmax(v) ==
    (CHOOSE k \in DOMAIN v :
        /\ \A j \in DOMAIN v : v[j] <= v[k]
        /\ \A j \in 1..(k - 1) : v[j] < v[k]) - 1

\* CITreeClassifier.predict(X)
predict(t, Xs) == [i \in DOMAIN Xs |-> np_argmax(predict_proba(t, Xs)[i])]

\* ------------------------------------------------------- properties of trees
Fitted(t) == pc[t] = "fitted"
NodesOf(t) == {root[t][path] : path \in DOMAIN root[t]}
HasInternal(t) == \E nd \in NodesOf(t) : nd.kind = "Internal"

\* C1: every Internal node stores a p-value below alpha and a column, and a
\* node whose selector found no column or a best p-value >= alpha is a Leaf.
C1_InternalBelowAlpha ==
    \A t \in Trees : \A nd \in NodesOf(t) :
        /\ nd.kind = "Internal" => nd.col_pval < tree[t].alpha /\ nd.col \in Cols
        /\ (nd.seen.sel_pval # NotRun
              /\ (nd.seen.sel_col = 0 \/ nd.seen.sel_pval >= tree[t].alpha))
           => nd.kind = "Leaf"

\* A fitted tree with an Internal root and a Leaf made because the best
\* p-value was not below alpha
C1_Witness ==
    \E t \in Trees :
        /\ Fitted(t)
        /\ root[t][<<>>].kind = "Internal"
        /\ \E nd \in NodesOf(t) :
              nd.kind = "Leaf" /\ nd.seen.sel_col # 0 /\ nd.seen.sel_pval # NotRun
              /\ nd.seen.sel_pval >= tree[t].alpha

\* C2: with a finite max_depth, every Leaf is at depth <= max_depth, no
\* Internal node is at depth max_depth (or deeper), and every Internal node
\* was made from more than min_samples_split rows.
C2_DepthAndSize ==
    \A t \in Trees : tree[t].max_depth # Inf =>
        \A path \in DOMAIN root[t] :
            LET nd == root[t][path]
            IN /\ nd.kind = "Leaf" => Len(path) <= tree[t].max_depth
               /\ nd.kind = "Internal" =>
                     /\ Len(path) < tree[t].max_depth
                     /\ nd.seen.n > tree[t].min_samples_split

\* A fitted tree of finite max_depth with an Internal node just above
\* max_depth and a Leaf at max_depth that had rows enough to split
C2_Witness ==
    \E t \in Trees :
        /\ Fitted(t)
        /\ tree[t].max_depth # Inf
        /\ \E path \in DOMAIN root[t] :
              /\ Len(path) = tree[t].max_depth
              /\ root[t][path].kind = "Leaf"
              /\ root[t][path].seen.n > tree[t].min_samples_split
              /\ root[t][SubSeq(path, 1, Len(path) - 1)].kind = "Internal"

\* C3: both partitions of an Internal node are non-empty and its children
\* are built from them; a node whose splitter returned an empty partition
\* is a Leaf.
C3_NonEmptyChildren ==
    \A t \in Trees : \A path \in DOMAIN root[t] :
        LET nd == root[t][path]
        IN /\ nd.kind = "Internal" =>
                 /\ nd.seen.n_left >= 1 /\ nd.seen.n_right >= 1
                 /\ nd.seen.n_left + nd.seen.n_right = nd.seen.n
                 /\ \A b \in {0, 1} :
                       (path \o <<b>>) \in DOMAIN root[t] =>
                          root[t][path \o <<b>>].seen.n =
                             (IF b = 0 THEN nd.seen.n_left ELSE nd.seen.n_right)
                 /\ Fitted(t) => \A b \in {0, 1} : (path \o <<b>>) \in DOMAIN root[t]
           /\ (nd.seen.n_left = 0 \/ nd.seen.n_right = 0) => nd.kind = "Leaf"

\* A fitted tree with an Internal node and a Leaf made because the splitter
\* left one partition empty
C3_Witness ==
    \E t \in Trees :
        /\ Fitted(t)
        /\ HasInternal(t)
        /\ \E nd \in NodesOf(t) :
              nd.kind = "Leaf" /\ (nd.seen.n_left = 0 \/ nd.seen.n_right = 0)

SumsToOne(fi) == SumSeq(fi.num) = fi.den
AllZero(fi) == \A c \in DOMAIN fi.num : fi.num[c] = 0

\* The impurity decrease of the splits of tree t at the paths of S
RECURSIVE DecreaseOver(_, _)
DecreaseOver(t, S) ==
    IF S = {} THEN 0
    ELSE LET path == CHOOSE q \in S : TRUE
         IN (IF root[t][path].kind = "Internal" THEN root[t][path].impurity ELSE 0)
            + DecreaseOver(t, S \ {path})

TotalDecrease(t) == DecreaseOver(t, DOMAIN root[t])

\* C4 as claimed: after fit the importances sum to 1 whenever the tree has an
\* Internal node, and are all zero when the tree is a single Leaf.
C4_Original ==
    \A t \in Trees : Fitted(t) =>
        /\ HasInternal(t) => SumsToOne(feature_importances_[t])
        /\ ~HasInternal(t) => AllZero(feature_importances_[t])

\* C4 amended: after fit the importances sum to 1 whenever the splits of the
\* tree decreased the impurity by a positive total, and are all zero
\* otherwise: when the tree is a single Leaf, and also when every split of
\* the tree has an impurity decrease of zero.
C4_Amended ==
    \A t \in Trees : Fitted(t) =>
        /\ TotalDecrease(t) > 0 => SumsToOne(feature_importances_[t])
        /\ TotalDecrease(t) <= 0 => AllZero(feature_importances_[t])
        /\ ~HasInternal(t) => AllZero(feature_importances_[t])
        /\ \A c \in Cols : feature_importances_[t].num[c] >= 0

\* A fitted tree of two splits or more whose importances sum to 1
C4_Witness ==
    \E t \in Trees :
        /\ Fitted(t)
        /\ Cardinality({path \in DOMAIN root[t] : root[t][path].kind = "Internal"}) >= 2
        /\ TotalDecrease(t) > 0
        /\ SumsToOne(feature_importances_[t])

\* C7: two trees constructed with the same arguments and seed, each fit once
\* on the same X and y, have the same nodes and give the same predict(X).
C7_TreeDeterminism ==
    \A t, u \in Trees :
        (Fitted(t) /\ Fitted(u) /\ tree[t] = tree[u]) =>
            /\ root[t] = root[u]
            /\ predict(t, X) = predict(u, X)

\* Two fitted trees of the same arguments that split, each split testing a
\* drawn subset of the columns
C7_Witness ==
    /\ \A t \in Trees : Fitted(t) /\ tree[t] = tree[1]
    /\ tree[1].max_feats.val < P
    /\ Cardinality({path \in DOMAIN root[1] : root[1][path].kind = "Internal"}) >= 2

\* ------------------------------------------------ specification: constructors
\* One call of CITreeClassifier(...) or CIForestClassifier(...): made keeps
\* the arguments, the outcome and the object, if one was returned.
TreeCtorArgs ==
    [alpha : {-5, 0, 5, 100, 101}, n_permutations : {-1, 0, 100},
     selector : {"pearson", "distance", "hybrid", "spearman"},
     max_feats : {Tok("sqrt"), Tok("log"), Tok("all"), IntV(-1), Tok("auto"), IntV(1)},
     min_samples_split : {0, 2}, max_depth : {-1, 0, 3},
     early_stopping : BOOLEAN, random_state : {Some(0)}]
    \cup
    [alpha : {0, 5}, n_permutations : {100}, selector : {"pearson"},
     max_feats : {Tok("all")}, min_samples_split : {2}, max_depth : {-1},
     early_stopping : {FALSE}, random_state : {NoneV}]

ForestCtorArgs ==
    [alpha : {-5, 0, 5, 100, 101}, n_permutations : {-1, 0, 100},
     selector : {"pearson", "distance", "hybrid", "spearman"},
     max_feats : {Tok("sqrt"), Tok("log"), Tok("all"), IntV(-1), Tok("auto"), IntV(1)},
     min_samples_split : {2}, max_depth : {-1, 3}, n_estimators : {-1, 0, 1, NTrees},
     class_weight : {"None", "balanced", "stratify", "auto"},
     bootstrap : {TRUE}, bayes : {TRUE},
     early_stopping : {FALSE}, random_state : {Some(1)}]
    \cup
    [alpha : {0, 5}, n_permutations : {100}, selector : {"pearson"},
     max_feats : {Tok("all")}, min_samples_split : {2}, max_depth : {-1},
     n_estimators : {NTrees}, class_weight : {"None"}, bootstrap : {TRUE},
     bayes : {FALSE}, early_stopping : {FALSE}, random_state : {NoneV}]

\* CITreeClassifier(...): the checks, then the attributes; with
\* random_state=None the seed is np.random.randint(1, 9999), a call on
\* numpy's global generator
TreeNew ==
    /\ made = NoObject
    /\ \E a \in TreeCtorArgs :
          IF ~TreeArgsValid(a)
          THEN /\ made' = [cls |-> "Tree", args |-> a, outcome |-> "ValueError",
                           obj |-> NoObject]
               /\ UNCHANGED <<np_random, np_draws>>
          ELSE IF a.random_state.some
          THEN /\ made' = [cls |-> "Tree", args |-> a, outcome |-> "ok",
                           obj |-> CITreeBase_init(a, 0)]
               /\ UNCHANGED <<np_random, np_draws>>
          ELSE \E seed \in np_random_returns(np_random, np_random_randint(1, 9999)) :
                 /\ made' = [cls |-> "Tree", args |-> a, outcome |-> "ok",
                             obj |-> CITreeBase_init(a, seed[1])]
                 /\ np_draws' = Noted(np_random, np_random_randint(1, 9999), seed)
                 /\ np_random' = np_random_advance(np_random, np_random_randint(1, 9999))
    /\ UNCHANGED <<X, y, tree, pc, splitter_counter_, feature_importances_, labels_,
                   root, stack, boot, first_fit, pvalues, pvals, forestVars, predictVars>>

\* CIForestClassifier(...), likewise
ForestNew ==
    /\ made = NoObject
    /\ \E a \in ForestCtorArgs :
          IF ~ForestArgsValid(a)
          THEN /\ made' = [cls |-> "Forest", args |-> a, outcome |-> "ValueError",
                           obj |-> NoObject]
               /\ UNCHANGED <<np_random, np_draws>>
          ELSE IF a.random_state.some
          THEN /\ made' = [cls |-> "Forest", args |-> a, outcome |-> "ok",
                           obj |-> CIForestBase_init(a, 0)]
               /\ UNCHANGED <<np_random, np_draws>>
          ELSE \E seed \in np_random_returns(np_random, np_random_randint(1, 9999)) :
                 /\ made' = [cls |-> "Forest", args |-> a, outcome |-> "ok",
                             obj |-> CIForestBase_init(a, seed[1])]
                 /\ np_draws' = Noted(np_random, np_random_randint(1, 9999), seed)
                 /\ np_random' = np_random_advance(np_random, np_random_randint(1, 9999))
    /\ UNCHANGED <<X, y, tree, pc, splitter_counter_, feature_importances_, labels_,
                   root, stack, boot, first_fit, pvalues, pvals, forestVars, predictVars>>

NoTrees ==
    /\ tree = [t \in Trees |-> NoObject]
    /\ pc = [t \in Trees |-> "none"]
    /\ splitter_counter_ = [t \in Trees |-> 0]
    /\ feature_importances_ = [t \in Trees |-> [num |-> <<>>, den |-> ImpScale]]
    /\ labels_ = [t \in Trees |-> <<>>]
    /\ root = [t \in Trees |-> <<>>]
    /\ stack = [t \in Trees |-> <<>>]
    /\ boot = [t \in Trees |-> NoBoot]
    /\ first_fit = [t \in Trees |-> NoFirstFit]
    /\ pvals = {}

CtorInit ==
    /\ made = NoObject
    /\ X = <<>>
    /\ y = <<>>
    /\ NoTrees
    /\ np_random = np_random_initial
    /\ np_draws = {}
    /\ pvalues = PVals
    /\ NoForest
    /\ NoPredict

CtorNext == TreeNew \/ ForestNew

SpecCtor == CtorInit /\ [][CtorNext]_vars

\* C9: a constructor call with alpha outside (0,1], a negative
\* n_permutations, or an unknown selector, max_feats or class_weight token
\* raises and returns no object; with alpha in (0,1] and the other arguments
\* valid it returns the object.
C9_InvalidArgsRejected ==
    made.cls \in {"Tree", "Forest"} =>
        LET a == made.args
            selectors == {"distance", "pearson", "hybrid"}
            weights == {"None", "balanced", "stratify"}
            bad == \/ a.alpha <= 0 \/ a.alpha > 100
                   \/ a.n_permutations < 0
                   \/ a.selector \notin selectors
                   \/ (a.max_feats.tok # "int" /\ a.max_feats.tok \notin {"sqrt", "log", "all"})
                   \/ (made.cls = "Forest" /\ a.class_weight \notin weights)
            good == /\ a.alpha > 0 /\ a.alpha <= 100
                    /\ a.n_permutations >= 0
                    /\ a.selector \in selectors
                    /\ a.max_feats \in {Tok("sqrt"), Tok("log"), Tok("all"), IntV(-1)}
                    /\ made.cls = "Forest" => (a.class_weight \in weights /\ a.n_estimators >= 1)
        IN /\ bad => made.outcome = "ValueError" /\ made.obj = NoObject
           /\ good => made.outcome = "ok" /\ made.obj.alpha = a.alpha

\* A Forest construction that raised only for its alpha, just above 1
C9_Witness ==
    /\ made.cls = "Forest"
    /\ made.outcome = "ValueError"
    /\ made.args.alpha = 101
    /\ ForestArgsValid([made.args EXCEPT !.alpha = 100])

\* C10: a Forest construction with n_estimators < 1 raises.
C10_NonPositiveEstimatorsRejected ==
    (made.cls = "Forest" /\ made.args.n_estimators < 1) => made.outcome = "ValueError"

\* The checks of the constructors on the arguments other than max_feats let
\* the call through (n_estimators is checked with `< 0`)
OtherArgsInRange(m) ==
    /\ m.args.alpha > 0 /\ m.args.alpha <= 100
    /\ m.args.n_permutations >= 0
    /\ m.args.selector \in {"distance", "pearson", "hybrid"}
    /\ m.cls = "Forest" => /\ ~(m.args.n_estimators < 0)
                           /\ m.args.class_weight \in {"None", "balanced", "stratify"}

\* C11: a constructor call whose max_feats is 'sqrt', 'log', 'all', unspecified
\* (-1) or an explicit integer k >= 1 returns an object, and fit resolves its
\* max_feats on p columns to floor(sqrt(p)), floor(ln(p+1)), p, p and k.
C11_MaxFeatsResolved ==
    (/\ made.cls \in {"Tree", "Forest"}
     /\ OtherArgsInRange(made)
     /\ \/ made.args.max_feats \in {Tok("sqrt"), Tok("log"), Tok("all"), IntV(-1)}
        \/ made.args.max_feats.tok = "int" /\ made.args.max_feats.val >= 1)
    => /\ made.outcome = "ok"
       /\ \A p \in 1..NCols :
             LET k == ResolveMaxFeats(made.obj.max_feats, p).val
                 mf == made.args.max_feats
             IN /\ mf = Tok("sqrt") => k * k <= p /\ (k + 1) * (k + 1) > p
                /\ mf = Tok("log") => k = (IF p >= 7 THEN 2 ELSE IF p >= 2 THEN 1 ELSE 0)
                /\ mf \in {Tok("all"), IntV(-1)} => k = p
                /\ (mf.tok = "int" /\ mf.val >= 1) => k = mf.val

\* ----------------------------------------------------------- CIForest*.fit
Estimators == 1..forest.n_estimators

\* CIForestClassifier.fit and CIForestBase.fit up to the dispatch of the
\* tasks: labels_, the trees (tree i of the code is object i + 1 here, so its
\* random_state * (i + 1) is random_state * t) and the class distribution.
\* The loop that makes the trees writes each tree's seed into self.params,
\* which keeps the seed of the last tree.
ForestFitStart ==
    /\ fpc = "new"
    /\ tree' = [t \in Trees |->
                  IF t \in Estimators
                  THEN CITreeBase_init(
                          [forest.params EXCEPT !.random_state = Some(forest.random_state * t)]
                             @@ [max_depth |-> -1],
                          0)
                  ELSE tree[t]]
    /\ forest' = [forest EXCEPT !.params.random_state =
                                    Some(forest.random_state * forest.n_estimators)]
    /\ pc' = [t \in Trees |-> IF t \in Estimators THEN "new" ELSE pc[t]]
    /\ forest_fit' = [forest_fit EXCEPT
                         !.labels_ = np_unique(y),
                         !.n_classes_ = Len(np_unique(y)),
                         !.class_dist_p = _estimate_proba(y, np_unique(y))]
    /\ fpc' = "fitting"
    /\ UNCHANGED <<X, y, boot, first_fit, splitter_counter_, feature_importances_, labels_, root, stack,
                   np_random, np_draws, pvalues, pvals, made, predictVars>>

\* _parallel_fit_classifier of tree t, entry.  With bootstrap the sampler
\* it calls seeds numpy's generator with random_state*(tree_idx+1); without,
\* tree.fit(X, y).  The task may reach its first statement before or after
\* CIForestBase.fit has raised the error of another task.
ParallelFit(t) ==
    /\ t \in Estimators
    /\ pc[t] = "new"
    /\ IF forest.bootstrap
       THEN /\ sampled_idx_seed(t, forest.random_state * t, forest.class_weight)
            /\ pc' = [pc EXCEPT ![t] = "sampling"]
            /\ UNCHANGED <<labels_, tree, feature_importances_, root, stack>>
       ELSE /\ Fit(t, AllRows, np_unique(y))
            /\ boot' = [boot EXCEPT ![t].rows = AllRows]
            /\ UNCHANGED <<np_random, np_draws>>
    /\ UNCHANGED <<X, y, first_fit, splitter_counter_, pvalues, pvals>>
    /\ UNCHANGED <<made, forestVars, predictVars>>

\* _parallel_fit_classifier of tree t with bayes, the weights of the next
\* draw of its sampler: bayes_boot_probs on numpy's generator as it is now
SampleWeights(t) ==
    /\ pc[t] = "sampling"
    /\ forest.bayes
    /\ sampled_idx_weights(t, y)
    /\ UNCHANGED <<X, y, first_fit, splitter_counter_, pvalues, pvals, pc, labels_, tree,
                   feature_importances_, root, stack>>
    /\ UNCHANGED <<made, forestVars, predictVars>>

\* _parallel_fit_classifier of tree t, one draw of its sampler from numpy's
\* generator as it is now: the only draw of normal_sampled_idx, or the draw
\* of the next class of stratify_sampled_idx / balanced_sampled_idx.  After
\* the last draw idx = np.concatenate(idx), which raises ValueError for the
\* flat array of normal_sampled_idx (its elements are zero-dimensional), and
\* tree.fit(X[idx], y[idx], np.unique(y)).
SampleDraw(t) ==
    /\ pc[t] = "sampling"
    /\ forest.bayes => boot[t].p # <<>>
    /\ LET call == sampled_idx_call(boot[t], y, forest.class_weight,
                                    np_min(forest_fit.class_dist_p))
       IN \E ix \in np_random_returns(np_random, call) :
            \E b \in {sampled_idx_choice(boot[t], y, call, ix, np_random)} :
               /\ np_draws' = Noted(np_random, call, ix)
               /\ np_random' = np_random_advance(np_random, call)
               /\ IF b.kind = "array"
                  THEN /\ boot' = [boot EXCEPT ![t] = b]
                       /\ pc' = [pc EXCEPT ![t] = "ValueError"]
                       /\ UNCHANGED <<labels_, tree, feature_importances_, root, stack>>
                  ELSE IF ~SamplerDone(b, y)
                  THEN /\ boot' = [boot EXCEPT ![t] = b]
                       /\ UNCHANGED <<pc, labels_, tree, feature_importances_, root, stack>>
                  ELSE /\ boot' = [boot EXCEPT ![t] = [b EXCEPT !.rows = np_concatenate(b.idx)]]
                       /\ Fit(t, np_concatenate(b.idx), FitLabels(y, np_concatenate(b.idx)))
    /\ UNCHANGED <<X, y, first_fit, splitter_counter_, pvalues, pvals>>
    /\ UNCHANGED <<made, forestVars, predictVars>>

\* CIForestBase.fit when a task raised: Parallel raises the task's error and
\* fit does not reach its accumulation of the importances.  Nothing joins
\* the worker threads before the error propagates: a task a worker has
\* taken starts and runs on after fit has raised.
ForestFitRaise ==
    /\ fpc = "fitting"
    /\ \E t \in Estimators : pc[t] = "ValueError"
    /\ fpc' = "fit_failed"
    /\ UNCHANGED <<X, y, treeVars, made, forest, forest_fit, predictVars>>

\* A tree's importances in lowest terms (the same numbers num[c]/den)
RECURSIVE GcdSeq(_)
GcdSeq(s) == IF s = <<>> THEN 0 ELSE Gcd(Head(s), GcdSeq(Tail(s)))

Reduced(fi) ==
    LET g == Gcd(GcdSeq(fi.num), fi.den)
    IN [num |-> [c \in DOMAIN fi.num |-> fi.num[c] \div g], den |-> fi.den \div g]

\* The sum over the trees of their importances, on the common denominator
RECURSIVE LcmDen(_)
LcmDen(n) ==
    IF n = 0 THEN 1
    ELSE LET d == Reduced(feature_importances_[n]).den
             r == LcmDen(n - 1)
         IN (d * r) \div Gcd(d, r)

RECURSIVE SumImportance(_, _)
SumImportance(n, c) ==
    IF n = 0 THEN 0
    ELSE LET fi == Reduced(feature_importances_[n])
         IN fi.num[c] * (LcmDen(forest.n_estimators) \div fi.den)
            + SumImportance(n - 1, c)

\* CIForestBase.fit after the tasks have joined
ForestFitJoin ==
    /\ fpc = "fitting"
    /\ \A t \in Estimators : pc[t] = "fitted"
    /\ forest_fit' = [forest_fit EXCEPT !.feature_importances_ =
            Normalised([num |-> [c \in Cols |-> SumImportance(forest.n_estimators, c)],
                        den |-> LcmDen(forest.n_estimators)])]
    /\ fpc' = "fitted"
    /\ UNCHANGED <<X, y, treeVars, made, forest, predictVars>>

\* ------------------------------------------- CIForestClassifier.predict_proba
\* An accumulator that is the one of the call before, when there was one
np_zeros_stale(n, k) == IF Len(all_proba) = n THEN all_proba ELSE [i \in 1..n |-> [j \in 1..k |-> 0]]

\* np.zeros((n, k))
np_zeros(n, k) == [i \in 1..n |-> [j \in 1..k |-> 0]]

\* The inputs given to predict_proba: one row, two rows
TestSets == {<<X[1]>>, <<X[1], X[Len(X)]>>}

\* predict_proba up to the dispatch of one task per tree; a fitted forest is
\* asked MaxCalls times, the later times for the same X, and result keeps
\* the matrix its first call returned
PredictStart ==
    /\ fpc = "fitted" \/ (fpc = "predicted" /\ result.calls < MaxCalls)
    /\ \E Xs \in (IF fpc = "fitted" THEN TestSets ELSE {Xtest}) :
          /\ Xtest' = Xs
          /\ all_proba' = np_zeros(Len(Xs), forest_fit.n_classes_)
    /\ lock' = 0
    /\ ptask' = [t \in Trees |->
                   IF t \in Estimators THEN [IdleTask EXCEPT !.pc = "start"] ELSE IdleTask]
    /\ result' = [outcome |-> "none", calls |-> result.calls, first |-> result.first]
    /\ fpc' = "predicting"
    /\ UNCHANGED <<X, y, treeVars, made, forest, forest_fit>>

\* _accumulate_prediction: prediction = predict(X), before or after
\* predict_proba has raised the error of another task
TaskPredict(t) ==
    /\ ptask[t].pc = "start"
    /\ ptask' = [ptask EXCEPT ![t].prediction = predict_proba(t, Xtest),
                              ![t].pc = "computed"]
    /\ UNCHANGED <<X, y, treeVars, made, forestVars, Xtest, all_proba, lock, result>>

\* A lock that any task may take at any time
CanAcquire_always(l) == TRUE

\* threading.Lock: it can be taken when no task holds it
CanAcquire(l) == l = 0

\* _accumulate_prediction: entering `with lock`
TaskAcquire(t) ==
    /\ ptask[t].pc = "computed"
    /\ CanAcquire(lock)
    /\ lock' = t
    /\ ptask' = [ptask EXCEPT ![t].pc = "locked", ![t].i = 1]
    /\ UNCHANGED <<X, y, treeVars, made, forestVars, Xtest, all_proba, result>>

\* _accumulate_prediction with a one-row out: out[0] += prediction adds the
\* 1 x k matrix prediction in place to the length-k row out[0]; numpy
\* refuses (the result would be 1 x k), ValueError leaves `with lock`
TaskAddWhole(t) ==
    /\ ptask[t].pc = "locked"
    /\ Len(all_proba) = 1
    /\ lock' = 0
    /\ ptask' = [ptask EXCEPT ![t].pc = "ValueError"]
    /\ UNCHANGED <<X, y, treeVars, made, forestVars, Xtest, all_proba, result>>

\* out[i] += prediction[i], first half: the row is read
TaskAddRead(t) ==
    /\ ptask[t].pc = "locked"
    /\ Len(all_proba) # 1
    /\ ptask[t].i <= Len(all_proba)
    /\ ptask' = [ptask EXCEPT ![t].tmp = all_proba[ptask[t].i], ![t].pc = "adding"]
    /\ UNCHANGED <<X, y, treeVars, made, forestVars, Xtest, all_proba, lock, result>>

\* out[i] += prediction[i], second half: the sum is written
TaskAddWrite(t) ==
    /\ ptask[t].pc = "adding"
    /\ all_proba' = [all_proba EXCEPT ![ptask[t].i] =
            [k \in DOMAIN @ |-> ptask[t].tmp[k] + ptask[t].prediction[ptask[t].i][k]]]
    /\ ptask' = [ptask EXCEPT ![t].i = @ + 1, ![t].pc = "locked"]
    /\ UNCHANGED <<X, y, treeVars, made, forestVars, Xtest, lock, result>>

\* _accumulate_prediction: leaving `with lock` after the loop
TaskRelease(t) ==
    /\ ptask[t].pc = "locked"
    /\ Len(all_proba) # 1
    /\ ptask[t].i > Len(all_proba)
    /\ lock' = 0
    /\ ptask' = [ptask EXCEPT ![t].pc = "done"]
    /\ UNCHANGED <<X, y, treeVars, made, forestVars, Xtest, all_proba, result>>

\* A normalisation by the number of classes instead of the number of trees
len_estimators_classes == forest_fit.n_classes_

\* len(self.estimators_)
len_estimators == forest.n_estimators

\* predict_proba after the tasks have joined: every row divided by
\* len(estimators_); entry num[i][k]/den
PredictJoin ==
    /\ fpc = "predicting"
    /\ \A t \in Estimators : ptask[t].pc = "done"
    /\ LET num == IF Len(all_proba) = 1 THEN all_proba[1] ELSE all_proba
       IN result' = [outcome |-> "ok", num |-> num, den |-> ProbScale * len_estimators,
                     calls |-> result.calls + 1,
                     first |-> IF result.calls = 0 THEN num ELSE result.first]
    /\ fpc' = "predicted"
    /\ UNCHANGED <<X, y, treeVars, made, forest, forest_fit, Xtest, all_proba, lock, ptask>>

\* predict_proba when a task raised: Parallel raises the task's error; a
\* task a worker has taken starts and runs on after predict_proba has raised
PredictRaise ==
    /\ fpc = "predicting"
    /\ \E t \in Estimators : ptask[t].pc = "ValueError"
    /\ result' = [outcome |-> "ValueError", calls |-> result.calls + 1,
                  first |-> result.first]
    /\ fpc' = "failed"
    /\ UNCHANGED <<X, y, treeVars, made, forest, forest_fit, Xtest, all_proba, lock, ptask>>

\* ---------------------------------------------------- specification: a forest
\* One CIForestClassifier, constructed, fit with its tasks running
\* concurrently, then asked for predict_proba with its tasks running
\* concurrently.
ForestArgSet ==
    [alpha : {5}, n_permutations : {100}, selector : {"pearson"},
     max_feats : {Tok("sqrt"), Tok("all")},
     min_samples_split : {1, 2}, max_depth : {-1, 1}, n_estimators : {0, NTrees},
     class_weight : {"None"}, bootstrap : {FALSE}, bayes : {FALSE},
     early_stopping : {FALSE}, random_state : {Some(1)}]
    \cup
    [alpha : {5}, n_permutations : {100}, selector : {"pearson"},
     max_feats : {Tok("all")},
     min_samples_split : {2}, max_depth : {-1}, n_estimators : {NTrees},
     class_weight : {"None", "balanced"}, bootstrap : {TRUE},
     bayes : BOOLEAN,
     early_stopping : {FALSE}, random_state : {Some(1)}]
    \cup
    [alpha : {5}, n_permutations : {100}, selector : {"pearson"},
     max_feats : {Tok("all")},
     min_samples_split : {2}, max_depth : {-1}, n_estimators : {1},
     class_weight : {"stratify"}, bootstrap : {TRUE},
     bayes : BOOLEAN,
     early_stopping : {FALSE}, random_state : {Some(1)}]

ForestXSet == {[i \in 1..NRows |-> <<ColInc[i], ColAlt[i]>>]}

\* The data of the forests that draw bootstrap samples: the first BootRows
\* rows of that matrix, one of them of its own class
BootRows == NRows - 1
BootXSet == {[i \in 1..BootRows |-> <<ColInc[i], ColAlt[i]>>]}
BootYSet == {[i \in 1..BootRows |-> IF i = 1 THEN 1 ELSE 0]}

ForestInit ==
    /\ made = NoObject
    /\ \E a \in ForestArgSet :
          /\ forest = CIForestBase_init(a, 1)
          /\ X \in (IF a.bootstrap THEN BootXSet ELSE ForestXSet)
          /\ y \in (IF a.bootstrap THEN BootYSet ELSE YSet)
    /\ NoTrees
    /\ np_random = np_random_initial
    /\ np_draws = {}
    /\ pvalues = {1}
    /\ fpc = "new"
    /\ forest_fit = NoForestFit
    /\ NoPredict

ForestNext ==
    \/ ForestFitStart
    \/ \E t \in Trees : \/ ParallelFit(t) \/ SampleWeights(t) \/ SampleDraw(t)
                        \/ BuildCheck(t) \/ BuildDraw(t) \/ BuildSplit(t) \/ FitReturn(t)
    \/ ForestFitJoin
    \/ ForestFitRaise
    \/ PredictStart
    \/ \E t \in Trees : \/ TaskPredict(t) \/ TaskAcquire(t) \/ TaskAddWhole(t)
                        \/ TaskAddRead(t) \/ TaskAddWrite(t) \/ TaskRelease(t)
    \/ PredictJoin
    \/ PredictRaise

SpecForest == ForestInit /\ [][ForestNext]_vars

\* ----------------------------------------------------- properties of forests
InCritical(t) == ptask[t].pc \in {"locked", "adding"}

\* Entry (i, k) of the predict_proba of the first n trees, added up
RECURSIVE SumProba(_, _, _)
SumProba(n, i, k) ==
    IF n = 0 THEN 0 ELSE predict_proba(n, Xtest)[i][k] + SumProba(n - 1, i, k)

\* C5: the additions into the accumulator are made by the holder of the lock,
\* one task at a time, and the matrix predict_proba returns is, entry by
\* entry, the sum of the trees' predict_proba divided by n_estimators.
C5_NoLostUpdate ==
    /\ \A t, u \in Trees : (InCritical(t) /\ InCritical(u)) => t = u
    /\ \A t \in Trees : InCritical(t) => lock = t
    /\ result.outcome = "ok" =>
          /\ result.den = ProbScale * forest.n_estimators
          /\ \A i \in DOMAIN Xtest : \A k \in 1..forest_fit.n_classes_ :
                result.num[i][k] = SumProba(forest.n_estimators, i, k)

\* predict_proba has returned the average of two trees that disagree on a row
C5_Witness ==
    /\ fpc = "predicted"
    /\ result.outcome = "ok"
    /\ forest.n_estimators >= 2
    /\ \E i \in DOMAIN Xtest :
          predict_proba(1, Xtest)[i] # predict_proba(2, Xtest)[i]

\* C6: during Forest.fit every column draw of every tree is the draw of a
\* generator seeded with base_seed * (tree_index + 1) * split_counter, whatever
\* the interleaving of the tasks.
C6_DrawsFromOwnSeed ==
    \A t \in Trees : \A nd \in NodesOf(t) :
        nd.seen.counter # NotRun =>
            nd.seen.from = np_random_seed(forest.random_state * t * nd.seen.counter)

\* C8: in a fitted Forest constructed with a finite max_depth d every tree
\* has max_depth d and no Leaf of any tree is deeper than d.
C8_ForestMaxDepth ==
    (fpc = "fitted" /\ forest.max_depth # -1) =>
        \A t \in Estimators : \A path \in DOMAIN root[t] :
            root[t][path].kind = "Leaf" => Len(path) <= forest.max_depth

\* C12: a Forest.fit that fails with a task's error leaves the estimator as
\* it was before the call: no classes, no class distribution, no
\* importances, no estimators.
C12_FitAllOrNothing ==
    fpc = "fit_failed" =>
        /\ forest_fit = NoForestFit
        /\ \A t \in Trees : tree[t] = NoObject /\ pc[t] = "none"

\* The state of numpy's generator at draw k of the sampler of tree t, and the
\* weights of the draw, when the generator is the sampler's own: seeded with
\* base_seed * (tree_index + 1) and used by no other task since
RECURSIVE OwnDraw(_, _)
OwnDraw(t, k) ==
    LET before == IF k = 1 THEN np_random_seed(forest.random_state * t)
                  ELSE np_random_advance(
                           OwnDraw(t, k - 1).g,
                           np_random_choice_replace(
                               SamplerTmp(boot[t].kind, y, k - 1),
                               SamplerSize(boot[t].kind, forest.class_weight, y, k - 1,
                                           np_min(forest_fit.class_dist_p)),
                               OwnDraw(t, k - 1).p))
        w == bayes_boot_probs(before, Len(SamplerTmp(boot[t].kind, y, k)))
    IN IF forest.bayes THEN [g |-> w.g, p |-> w.p] ELSE [g |-> before, p |-> <<>>]

\* C13: with bootstrap, Forest.fit does not fail under any class_weight
\* policy, every draw of the sampler of tree t is the draw of the policy's
\* sampler seeded with base_seed * (tree_index + 1), and the tree is fitted
\* on the rows drawn.
C13_BootstrapRows ==
    forest.bootstrap =>
        /\ fpc # "fit_failed"
        /\ \A t \in Trees :
              /\ pc[t] # "ValueError"
              /\ \A k \in DOMAIN boot[t].from :
                    /\ boot[t].from[k].g = OwnDraw(t, k).g
                    /\ boot[t].from[k].p = OwnDraw(t, k).p
              /\ pc[t] \in {"build", "draw", "split", "fitted"} =>
                    /\ SamplerDone(boot[t], y)
                    /\ boot[t].rows = np_concatenate(boot[t].idx)

\* CIForestClassifier.predict on the matrix predict_proba returned:
\* np.argmax(y_proba, axis=1)
ForestPredict == [i \in DOMAIN result.num |-> np_argmax(result.num[i])]

\* C15: for an input of n >= 1 rows Forest.predict_proba returns an n x
\* n_classes matrix and Forest.predict n class indices.
C15_PredictShape ==
    fpc \in {"predicted", "failed"} =>
        /\ result.outcome = "ok"
        /\ Len(result.num) = Len(Xtest)
        /\ \A i \in DOMAIN result.num : Len(result.num[i]) = forest_fit.n_classes_
        /\ Len(ForestPredict) = Len(Xtest)

\* ------------------------------------- specification: fits with given labels
\* The forests of SpecForest, and beside them one CITreeClassifier fitted as
\* _parallel_fit_classifier fits a tree, tree.fit(X[idx], y[idx],
\* np.unique(y)), for every idx of up to NRows - 1 rows: those that contain
\* no row of a class, which the samplers of this module do not return for
\* data of this size, are among them.
LabelsInit ==
    \/ ForestInit
    \/ /\ made = NoObject
       /\ NoForest
       /\ NoPredict
       /\ X \in ForestXSet
       /\ y \in YSet
       /\ \E a \in {b \in TreeArgSet : /\ b.alpha = 5 /\ b.min_samples_split = 2
                                       /\ b.max_depth = -1 /\ b.max_feats = Tok("all")
                                       /\ ~b.early_stopping /\ b.random_state = Some(1)} :
             tree = [t \in Trees |-> IF t = 1 THEN CITreeBase_init(a, 0) ELSE NoObject]
       /\ pc = [t \in Trees |-> IF t = 1 THEN "new" ELSE "none"]
       /\ splitter_counter_ = [t \in Trees |-> 0]
       /\ feature_importances_ = [t \in Trees |-> [num |-> <<>>, den |-> ImpScale]]
       /\ labels_ = [t \in Trees |-> <<>>]
       /\ root = [t \in Trees |-> <<>>]
       /\ stack = [t \in Trees |-> <<>>]
       /\ boot = [t \in Trees |-> NoBoot]
       /\ first_fit = [t \in Trees |-> NoFirstFit]
       /\ np_random = np_random_initial
       /\ np_draws = {}
       /\ pvalues = PVals
       /\ pvals = {}

\* CITreeClassifier.fit(X[idx], y[idx], labels) with labels = np.unique(y) of
\* the whole y, on a tree that belongs to no forest
LabelsFit(t) ==
    /\ fpc = "none"
    /\ pc[t] = "new"
    /\ \E idx \in UNION {[1..n -> DOMAIN X] : n \in 1..(NRows - 1)} :
          /\ Fit(t, idx, FitLabels(y, idx))
          /\ boot' = [boot EXCEPT ![t].rows = idx]
    /\ UNCHANGED <<X, y, first_fit, splitter_counter_, np_random, np_draws, pvalues, pvals>>
    /\ UNCHANGED <<made, forestVars, predictVars>>

LabelsNext ==
    \/ fpc # "none" /\ ForestNext
    \/ fpc = "none" /\ \E t \in Trees : \/ LabelsFit(t)
                                         \/ BuildCheck(t) \/ BuildDraw(t)
                                         \/ BuildSplit(t) \/ FitReturn(t)

SpecLabels == LabelsInit /\ [][LabelsNext]_vars

\* C16: every Leaf value of every tree of a Forest has one entry per class
\* of the whole y, in the order of np.unique(y): the frequency of that class
\* among the rows that reached the Leaf, also for a class none of them has.
C16_GlobalLabelSpace ==
    \A t \in Trees : \A path \in DOMAIN root[t] :
        root[t][path].kind = "Leaf" =>
            LET nd == root[t][path]
                ys == [i \in DOMAIN nd.seen.rows |-> y[nd.seen.rows[i]]]
            IN nd.value = [k \in DOMAIN np_unique(y) |->
                              (Count(ys, np_unique(y)[k]) * ProbScale) \div Len(ys)]

\* A tree has been fitted, with the labels of the whole y, on a draw of
\* several rows that has no row of one of the two classes of y: its Leaves
\* have two entries, and the entry of that class is 0
C16_Witness ==
    \E t \in Trees :
        /\ pc[t] = "fitted"
        /\ Len(np_unique(y)) = 2
        /\ Len(boot[t].rows) >= 2
        /\ \E k \in 1..2 :
              /\ \A i \in DOMAIN boot[t].rows : y[boot[t].rows[i]] # np_unique(y)[k]
              /\ \A path \in DOMAIN root[t] :
                    root[t][path].kind = "Leaf" =>
                        /\ Len(root[t][path].value) = 2
                        /\ root[t][path].value[k] = 0
                        /\ root[t][path].value[3 - k] = ProbScale

\* C17: every row of a fitted tree's predict_proba sums to 1, and so does
\* every row of the matrix Forest.predict_proba returns.
C17_RowsSumToOne ==
    /\ \A t \in Trees : pc[t] = "fitted" =>
          \A i \in DOMAIN X : SumSeq(predict_proba(t, X)[i]) = ProbScale
    /\ result.outcome = "ok" =>
          \A i \in DOMAIN result.num : SumSeq(result.num[i]) = result.den

\* Forest.predict_proba has returned a row that is a proper average: two
\* classes have a positive probability
C17_Witness ==
    /\ fpc = "predicted"
    /\ result.outcome = "ok"
    /\ forest.n_estimators >= 2
    /\ \E i \in DOMAIN result.num : \E k \in DOMAIN result.num[i] :
          0 < result.num[i][k] /\ result.num[i][k] < result.den

\* A step taken once the forest is fitted leaves the forest and its trees
\* as they are
ModelKept ==
    fpc \in {"fitted", "predicting", "predicted", "failed"} =>
        UNCHANGED <<tree, root, labels_, feature_importances_, splitter_counter_,
                    forest, forest_fit>>

\* C18: no step of predict_proba changes the fitted forest or its trees, and
\* a further predict_proba on the same input returns the matrix the first
\* call returned.
C18_InferenceIsPure ==
    /\ [][ModelKept]_vars
    /\ [](result.outcome = "ok" => result.num = result.first)

\* predict_proba has returned for the second time, a matrix with a proper
\* average in it
C18_Witness ==
    /\ fpc = "predicted"
    /\ result.outcome = "ok"
    /\ result.calls = 2
    /\ \E i \in DOMAIN result.num : \E k \in DOMAIN result.num[i] : result.num[i][k] > 0

\* (col, pval) is the selector's answer for the tested columns: (None, inf)
\* for none, else the smallest p-value with the first column that has it
MinFirst(tested, col, pval) ==
    IF tested = <<>> THEN col = 0 /\ pval = Inf
    ELSE \E i \in DOMAIN tested :
            /\ tested[i] = <<col, pval>>
            /\ \A j \in DOMAIN tested : tested[j][2] >= pval
            /\ \A j \in 1..(i - 1) : tested[j][2] > pval

\* C19: without early stopping the selector tests every candidate column in
\* the order given and returns the smallest p-value with the first column
\* that has it, (None, inf) for no candidate.
C19_SelectorMinimum ==
    \A t \in Trees : \A nd \in NodesOf(t) :
        (nd.seen.counter # NotRun /\ ~tree[t].early_stopping) =>
            /\ [i \in DOMAIN nd.seen.tested |-> nd.seen.tested[i][1]] = nd.seen.col_idx
            /\ MinFirst(nd.seen.tested, nd.seen.sel_col, nd.seen.sel_pval)

\* Without early stopping a selector has answered the first of two columns
\* of equal p-value
C19_Witness ==
    \E t \in Trees : \E nd \in NodesOf(t) :
        /\ nd.seen.counter # NotRun
        /\ ~tree[t].early_stopping
        /\ Len(nd.seen.tested) = 2
        /\ nd.seen.tested[1][2] = nd.seen.tested[2][2]
        /\ nd.seen.sel_col = nd.seen.tested[1][1]

\* C20: with early stopping the selector tests the candidates in order up to
\* the first whose p-value is below alpha, answers that column and tests no
\* later one; when no candidate is below alpha it tests them all and answers
\* as without early stopping.
C20_EarlyStopping ==
    \A t \in Trees : \A nd \in NodesOf(t) :
        (nd.seen.counter # NotRun /\ tree[t].early_stopping) =>
            LET tested == nd.seen.tested
                m == Len(tested)
            IN /\ [i \in DOMAIN tested |-> tested[i][1]] = SubSeq(nd.seen.col_idx, 1, m)
               /\ \A i \in 1..(m - 1) : tested[i][2] >= tree[t].alpha
               /\ IF m > 0 /\ tested[m][2] < tree[t].alpha
                  THEN nd.seen.sel_col = tested[m][1] /\ nd.seen.sel_pval = tested[m][2]
                  ELSE /\ m = Len(nd.seen.col_idx)
                       /\ MinFirst(tested, nd.seen.sel_col, nd.seen.sel_pval)

\* With early stopping a selector given two columns has answered the first
\* and not tested the second
C20_Witness ==
    \E t \in Trees : \E nd \in NodesOf(t) :
        /\ nd.seen.counter # NotRun
        /\ tree[t].early_stopping
        /\ Len(nd.seen.col_idx) = 2
        /\ Len(nd.seen.tested) = 1
        /\ nd.seen.sel_col = nd.seen.col_idx[1]

\* The paths of tree t whose _build_tree call passed the stopping check
Drew(t) == {path \in DOMAIN root[t] : root[t][path].seen.counter # NotRun}

\* The seed of the column draw of the call that made the node at path
SeedOf(t, path) == tree[t].random_state * root[t][path].seen.counter

\* A step adds one to the split counter of a tree when a _build_tree call
\* of the tree passes the stopping check, and leaves it alone otherwise
CounterStep ==
    \A t \in Trees :
        splitter_counter_'[t] =
            splitter_counter_[t] + (IF pc[t] = "build" /\ pc'[t] = "draw" THEN 1 ELSE 0)

\* The split counter of tree t counts the _build_tree calls that passed the
\* stopping check: the calls made so far carry the counters 1, 2, ... in the
\* order they were made, and a call draws its columns from numpy's generator
\* just seeded with random_state * splitter_counter_
CountsCalls(t) ==
    /\ pc[t] = "draw" =>
          np_random = np_random_seed(tree[t].random_state * splitter_counter_[t])
    /\ pc[t] = "split" =>
          Head(stack[t]).from = np_random_seed(tree[t].random_state * splitter_counter_[t])
    /\ \A path \in Drew(t) : root[t][path].seen.from = np_random_seed(SeedOf(t, path))
    /\ \A p1, p2 \in Drew(t) :
          p1 # p2 => root[t][p1].seen.counter # root[t][p2].seen.counter
    /\ {root[t][path].seen.counter : path \in Drew(t)} = 1..Cardinality(Drew(t))
    /\ pc[t] # "ValueError" =>
          splitter_counter_[t] =
              Cardinality(Drew(t)) + (IF pc[t] \in {"draw", "split"} THEN 1 ELSE 0)

\* C21: during a fit the split counter goes up by one for each _build_tree
\* call that passes the stopping check and never goes down, the column draw
\* of such a call is made from the generator seeded with
\* random_state * splitter_counter_, and no two column draws of one tree
\* have the same seed, whatever random_state the constructor accepted.
C21_DistinctSeeds ==
    /\ [][CounterStep]_vars
    /\ [](\A t \in Trees :
            /\ CountsCalls(t)
            /\ \A p1, p2 \in Drew(t) : p1 # p2 => SeedOf(t, p1) # SeedOf(t, p2))

\* ------------------------------------------- specification: trees, with progress
\* SpecTree with the progress of a running fit: fit is a sequential program,
\* so a _build_tree call that can take its next step takes it.  Whether fit
\* is called at all stays the caller's choice.  The trees have one seed and
\* start from one state of numpy's generator.
FairInit ==
    /\ TreeInit
    /\ \A t \in Trees : tree[t].random_state = 1 /\ tree[t].max_depth \in {Inf, 2}

SpecTreeFair ==
    /\ FairInit
    /\ [][TreeNext]_vars
    /\ \A t \in Trees :
          WF_vars(BuildCheck(t) \/ BuildDraw(t) \/ BuildSplit(t) \/ FitReturn(t))

\* The _build_tree calls of tree t made or pending: path |-> rows
CallsOf(t) ==
    [path \in DOMAIN root[t] \cup {stack[t][i].path : i \in DOMAIN stack[t]} |->
        IF path \in DOMAIN root[t] THEN root[t][path].seen.rows
        ELSE stack[t][CHOOSE i \in DOMAIN stack[t] : stack[t][i].path = path].rows]

Building(t) == pc[t] \in {"build", "draw", "split"}

\* Every Internal node of tree t has made two recursive calls, on two
\* non-empty row sets that are each smaller than its own and together are
\* exactly its own
ChildrenShrink(t) ==
    \A path \in DOMAIN root[t] : root[t][path].kind = "Internal" =>
        /\ path \o <<0>> \in DOMAIN CallsOf(t)
        /\ path \o <<1>> \in DOMAIN CallsOf(t)
        /\ LET rows == CallsOf(t)[path]
               left == CallsOf(t)[path \o <<0>>]
               right == CallsOf(t)[path \o <<1>>]
           IN /\ Len(left) > 0 /\ Len(right) > 0
              /\ Len(left) < Len(rows) /\ Len(right) < Len(rows)
              /\ Len(left) + Len(right) = Len(rows)
              /\ Range(left) \cup Range(right) = Range(rows)
              /\ Range(left) \cap Range(right) = {}

\* The depth of every call of tree t is below the number of rows given to fit
DepthBounded(t) ==
    \A path \in DOMAIN CallsOf(t) :
        /\ Len(CallsOf(t)[path]) >= 1
        /\ Len(path) + Len(CallsOf(t)[path]) <= Len(CallsOf(t)[<<>>])

\* The nodes of a fitted tree t form a strict binary tree: a root, two
\* children under every Internal node, none under a Leaf, and no other node
StrictBinary(t) ==
    /\ <<>> \in DOMAIN root[t]
    /\ \A path \in DOMAIN root[t] :
          /\ root[t][path].kind = "Internal" =>
                path \o <<0>> \in DOMAIN root[t] /\ path \o <<1>> \in DOMAIN root[t]
          /\ root[t][path].kind = "Leaf" =>
                path \o <<0>> \notin DOMAIN root[t] /\ path \o <<1>> \notin DOMAIN root[t]
          /\ path # <<>> =>
                /\ path[Len(path)] \in {0, 1}
                /\ SubSeq(path, 1, Len(path) - 1) \in DOMAIN root[t]
                /\ root[t][SubSeq(path, 1, Len(path) - 1)].kind = "Internal"

\* C22: a fit that has started returns, whatever max_depth is: each recursive
\* _build_tree call gets a non-empty row set smaller than its parent's, the
\* two row sets of an accepted split being exactly the parent's rows, so the
\* depth of the recursion stays below the number of rows, and the tree
\* returned is a finite strict binary tree.
C22_BuildTerminates ==
    /\ [](\A t \in Trees :
            /\ Building(t) \/ Fitted(t) => ChildrenShrink(t) /\ DepthBounded(t)
            /\ Fitted(t) => StrictBinary(t))
    /\ \A t \in Trees : Building(t) ~> (Fitted(t) \/ pc[t] = "ValueError")

\* A fitted tree of unbounded max_depth with an Internal node below the
\* root, whose two children are Leaves that share its rows
C22_Witness ==
    \E t \in Trees :
        /\ Fitted(t)
        /\ tree[t].max_depth = Inf
        /\ \E path \in DOMAIN root[t] :
              /\ Len(path) >= 1
              /\ root[t][path].kind = "Internal"
              /\ root[t][path \o <<0>>].kind = "Leaf"
              /\ root[t][path \o <<1>>].kind = "Leaf"
              /\ root[t][path \o <<0>>].seen.n + root[t][path \o <<1>>].seen.n
                    = root[t][path].seen.n

\* ------------------------------------------- specification: a tree fit twice
\* fit called again on a fitted object, with the same X and y.  fit assigns
\* max_feats, feature_importances_ and root anew (Fit), and nothing else: the
\* object keeps its splitter_counter_.
TreeRefit(t) ==
    /\ pc[t] = "fitted"
    /\ ~first_fit[t].taken
    /\ first_fit' = [first_fit EXCEPT ![t] =
           [taken |-> TRUE, root |-> root[t],
            feature_importances_ |-> feature_importances_[t],
            max_feats |-> tree[t].max_feats]]
    /\ Fit(t, AllRows, np_unique(y))
    /\ UNCHANGED <<X, y, boot, splitter_counter_, np_random, np_draws, pvalues, pvals>>
    /\ UNCHANGED <<made, forestVars, predictVars>>

RefitNext ==
    \E t \in {1} :
        \/ TreeFit(t) \/ BuildCheck(t) \/ BuildDraw(t) \/ BuildSplit(t) \/ FitReturn(t)
        \/ TreeRefit(t)

SpecRefit == TreeInit /\ [][RefitNext]_vars

\* The attributes of a Node
NodeOf(nd) ==
    [kind |-> nd.kind, col |-> nd.col, col_pval |-> nd.col_pval,
     threshold |-> nd.threshold, impurity |-> nd.impurity, value |-> nd.value]

\* Two trees of the same nodes
SameTree(r1, r2) ==
    /\ DOMAIN r1 = DOMAIN r2
    /\ \A path \in DOMAIN r1 : NodeOf(r1[path]) = NodeOf(r2[path])

\* The calls that built two trees seeded their column draws alike
SameSeeds(t, r1, r2) ==
    /\ DOMAIN r1 = DOMAIN r2
    /\ \A path \in DOMAIN r1 :
          tree[t].random_state * r1[path].seen.counter
              = tree[t].random_state * r2[path].seen.counter

\* C23: a second fit of a tree object on the same X and y returns the tree
\* of the first fit: the same nodes, built from column draws of the same
\* seeds, with the same importances and the same resolved max_feats.
C23_RefitRepeats ==
    \A t \in Trees : (Fitted(t) /\ first_fit[t].taken) =>
        /\ SameTree(root[t], first_fit[t].root)
        /\ SameSeeds(t, root[t], first_fit[t].root)
        /\ feature_importances_[t] = first_fit[t].feature_importances_
        /\ tree[t].max_feats = first_fit[t].max_feats

\* ------------------------------------------------ specification: the samplers
\* The samplers called one after the other, as _parallel_fit_classifier
\* calls them for the trees of a forest: the policy is the forest's
\* class_weight, the seed random_state*(tree_idx+1), min_class_p the
\* np.min(class_dist_p) of CIForestBase.fit.
MaxPlainRows == 2

\* Label vectors of up to NRows - 1 rows over three labels, and those of
\* NRows rows that have all three
SamplerYSet ==
    UNION {[1..n -> 0..2] : n \in 1..(NRows - 1)}
    \cup {yy \in [1..NRows -> 0..2] : Len(np_unique(yy)) = 3}

SamplerArgSet ==
    [alpha : {5}, n_permutations : {100}, selector : {"pearson"},
     max_feats : {Tok("all")}, min_samples_split : {2}, max_depth : {-1},
     n_estimators : {NTrees}, class_weight : {"None", "stratify", "balanced"},
     bootstrap : {TRUE}, bayes : BOOLEAN, early_stopping : {FALSE},
     random_state : {Some(s) : s \in 0..MaxSeed}]

\* A sampler is called when no other is running
SamplerCall(t) ==
    /\ boot[t] = NoBoot
    /\ \A u \in Trees : boot[u].kind = "none" \/ SamplerDone(boot[u], y)
    /\ sampled_idx_seed(t, forest.random_state * t, forest.class_weight)
    /\ UNCHANGED <<X, y, first_fit, tree, pc, splitter_counter_, feature_importances_, labels_,
                   root, stack, pvalues, pvals, made, forestVars, predictVars>>

\* stratify_unsampled_idx / balanced_unsampled_idx / normal_unsampled_idx
\* called when no sampler is running.  The first two seed numpy's generator
\* with random_state themselves before they call their sampler;
\* normal_unsampled_idx calls normal_sampled_idx at once, which seeds it.
UnsampledCall(t) ==
    /\ boot[t] = NoBoot
    /\ \A u \in Trees : boot[u].kind = "none" \/ SamplerDone(boot[u], y)
    /\ np_random' = np_random_seed(forest.random_state * t)
    /\ boot' = [boot EXCEPT ![t] =
                  [NoBoot EXCEPT !.via = "unsampled_idx",
                                 !.kind = IF forest.class_weight = "None" THEN "array"
                                          ELSE "entry"]]
    /\ UNCHANGED np_draws
    /\ UNCHANGED <<X, y, first_fit, tree, pc, splitter_counter_, feature_importances_, labels_,
                   root, stack, pvalues, pvals, made, forestVars, predictVars>>

\* stratify_unsampled_idx / balanced_unsampled_idx after their own seed:
\* the call of stratify_sampled_idx / balanced_sampled_idx with the same
\* random_state, which seeds numpy's generator again
UnsampledSampler(t) ==
    /\ boot[t].kind = "entry"
    /\ sampled_idx_seed(t, forest.random_state * t, forest.class_weight)
    /\ UNCHANGED <<X, y, first_fit, tree, pc, splitter_counter_, feature_importances_, labels_,
                   root, stack, pvalues, pvals, made, forestVars, predictVars>>

\* The running sampler, with bayes: the weights of its next draw
SamplerWeights(t) ==
    /\ boot[t].kind \in {"list", "array"}
    /\ ~SamplerDone(boot[t], y)
    /\ forest.bayes
    /\ sampled_idx_weights(t, y)
    /\ UNCHANGED <<X, y, first_fit, tree, pc, splitter_counter_, feature_importances_, labels_,
                   root, stack, pvalues, pvals, made, forestVars, predictVars>>

\* The running sampler: its next draw; after the last draw of a sampler
\* that one of the *_unsampled_idx called, the rows that function returns
SamplerChoice(t) ==
    /\ boot[t].kind \in {"list", "array"}
    /\ ~SamplerDone(boot[t], y)
    /\ forest.bayes => boot[t].p # <<>>
    /\ LET call == sampled_idx_call(boot[t], y, forest.class_weight,
                                    np_min(_estimate_proba(y, np_unique(y))))
       IN \E ix \in np_random_returns(np_random, call) :
            \E b \in {sampled_idx_choice(boot[t], y, call, ix, np_random)} :
            /\ boot' = [boot EXCEPT ![t] =
                          IF b.via = "unsampled_idx" /\ SamplerDone(b, y)
                          THEN [b EXCEPT !.unsampled = unsampled_idx(b, y)]
                          ELSE b]
            /\ np_draws' = Noted(np_random, call, ix)
            /\ np_random' = np_random_advance(np_random, call)
    /\ UNCHANGED <<X, y, first_fit, tree, pc, splitter_counter_, feature_importances_, labels_,
                   root, stack, pvalues, pvals, made, forestVars, predictVars>>

SamplerInit ==
    /\ made = NoObject
    /\ X = <<>>
    /\ y \in SamplerYSet
    /\ NoTrees
    /\ np_random = np_random_initial
    /\ np_draws = {}
    /\ pvalues = PVals
    /\ \E a \in SamplerArgSet :
          /\ a.class_weight = "None" => Len(y) <= MaxPlainRows
          /\ forest = CIForestBase_init(a, 1)
    /\ fpc = "new"
    /\ forest_fit = NoForestFit
    /\ NoPredict

SamplerNext ==
    \E t \in Trees :
        \/ SamplerCall(t)
        \/ UnsampledCall(t)
        \/ UnsampledSampler(t)
        \/ SamplerWeights(t)
        \/ SamplerChoice(t)

SpecSampler == SamplerInit /\ [][SamplerNext]_vars

\* The count of the rarest class of y
RECURSIVE MinCount(_, _)
MinCount(yy, labels) ==
    IF Len(labels) = 1 THEN Count(yy, labels[1])
    ELSE LET m == MinCount(yy, Tail(labels))
         IN IF Count(yy, labels[1]) <= m THEN Count(yy, labels[1]) ELSE m

\* C14: the stratified sampler draws for each class as many indices as the
\* class has rows in y; the balanced sampler draws for every class
\* floor(min_class_fraction * n) indices, min_class_fraction being the
\* fraction of the rarest class.
C14_SamplerGroupSizes ==
    \A t \in Trees :
        boot[t].kind = "list" =>
            /\ SamplerDone(boot[t], y) => Len(boot[t].idx) = Len(np_unique(y))
            /\ \A k \in DOMAIN boot[t].idx :
                  /\ forest.class_weight = "stratify" =>
                        Len(boot[t].idx[k]) = Count(y, np_unique(y)[k])
                  /\ forest.class_weight = "balanced" =>
                        Len(boot[t].idx[k]) =
                            (MinCount(y, np_unique(y)) * Len(y)) \div Len(y)

\* The balanced sampler has drawn one index per class for a y of three classes,
\* one of them with more than one row
C14_Witness ==
    /\ forest.class_weight = "balanced"
    /\ boot[1].kind = "list"
    /\ Len(boot[1].idx) = 3
    /\ \E k \in DOMAIN np_unique(y) : Count(y, np_unique(y)[k]) > Len(boot[1].idx[k])
    /\ \A k \in DOMAIN np_unique(y) : Len(boot[1].idx[k]) = 1

====
